---- MODULE Spec2Model ----
(***************************************************************************)
(* Model of loadmaster, a certificate manager: the expiry policy, the two  *)
(* storage backends (Local, S3), the ACME renewal orchestrator, the        *)
(* reconcile operation UpdateTLS of both backends, and the scheduler loop  *)
(* of main.                                                                *)
(*                                                                         *)
(* Byte strings (file and object contents) are records                     *)
(*   [kind, id, notAfter, subject, by]                                     *)
(* kind = "nofile"  the file or object does not exist                      *)
(*        "empty"   zero bytes (also Go's nil slice)                       *)
(*        "junk"    non-empty bytes holding no PEM block                   *)
(*        "key"     a PEM block of type PRIVATE KEY, key pair number id    *)
(*        "badder"  a PEM block of type CERTIFICATE whose DER is unparsable*)
(*        "cert"    a PEM CERTIFICATE for key pair id, valid until the     *)
(*                  hour notAfter, subject subject, signed by "acme" or    *)
(*                  by "self"                                              *)
(* Time is counted in hours.                                               *)
(***************************************************************************)
EXTENDS Integers, Sequences, FiniteSets, TLC

VARIABLES
    variant,      \* "Local" or "Remote": the storage main selected
    storageNil,   \* TRUE when NewS3ACMEStorage failed: storage holds a nil *S3ACMEStorage
    cwdIsHome,    \* TRUE when the working directory is ~/.loadmaster
    now,          \* the clock, in hours
    serial,       \* number of key pairs generated so far for certificates
    keySerial,    \* number of account keys generated so far
    localCerts,   \* localCertDir: per domain root, [dir, cert, key]
    s3Cert,       \* bucket objects certs/<root>/cert.pem
    s3Key,        \* bucket objects certs/<root>/privkey.pem
    acct,         \* account files/objects: [json, homeJson, pem, reg]
    last,         \* record of the last storage operation that ran
    saved,        \* per domain root, the arguments of the last SaveCert that succeeded
    pc,           \* position of main
    domains,      \* main's variable domains (the startup load)
    domainsFile,  \* content of the domains file
    queue,        \* groups the running pass still has to reconcile
    pass,         \* the running or last pass: the list it iterates (cfg), the groups
                  \* UpdateTLS returned for (done) and whether it returned an error
                  \* (errs), the last configuration loaded (latest)
    events,       \* number of write/create events waiting in watcher.Events
    writes,       \* number of times the domains file was written since the start
    idle,         \* hours since the select statement was entered
    sinceTimer,   \* hours since the watch loop was entered or the timer last fired
    reloadErrs,   \* number of events whose reload of the domains file failed
    exIn,         \* input of the expiry policy under test: [cert, w, now]
    exOut         \* its output: [called, soon, err]

vars == << variant, storageNil, cwdIsHome, now, serial, keySerial, localCerts,
           s3Cert, s3Key, acct, last, saved, pc, domains, domainsFile, queue,
           pass, events, writes, idle,
           sinceTimer, reloadErrs, exIn, exOut >>

storeVars == << variant, storageNil, cwdIsHome, now, serial, keySerial,
                localCerts, s3Cert, s3Key, acct, last, saved >>
mainVars == << pc, domains, domainsFile, queue, pass, events, writes, idle,
              sinceTimer, reloadErrs >>
exVars == << exIn, exOut >>

----------------------------------------------------------------------------
(* Bounds of the model *)

\* at most this many faults are injected into one storage operation
MaxFaults == 1
\* at most this many certificate key pairs are generated in one behaviour
MaxSerial == 2
\* at most this many account keys are generated in one behaviour
MaxKeys == 2
\* the clock advances at most this many times
MaxTicks == 1
\* a domains file holds at most this many groups
MaxGroups == 2
\* the domains file is written at most this many times after the start
MaxWrites == 1
\* the clock of main advances at most this many times
MaxMainTicks == 3

(* Program constants *)

MaxRemainingDaysBeforeCertExpiry == 60
HoursPerDay == 24
TimerHours == 24

----------------------------------------------------------------------------
(* Byte strings *)

Bytes(kind, id, notAfter, subject, by) ==
    [kind |-> kind, id |-> id, notAfter |-> notAfter, subject |-> subject, by |-> by]

NoFile == Bytes("nofile", 0, 0, "", "")
Nil == Bytes("empty", 0, 0, "", "")
Junk == Bytes("junk", 0, 0, "", "")
BadDer == Bytes("badder", 0, 0, "", "")
KeyPem(id) == Bytes("key", id, 0, "", "")
CertPem(id, notAfter, subject, by) == Bytes("cert", id, notAfter, subject, by)

\* len(b) == 0
IsEmpty(b) == b.kind = "empty"

\* the one element of a singleton: The({e : x \in {v}}) is e with x bound to v,
\* the way a Go function names the result of a call and goes on with it
The(S) == CHOOSE x \in S : TRUE

\* Go's int(x / y) on a float: the quotient truncated toward zero
TruncDiv(x, y) == IF x >= 0 THEN x \div y ELSE -((-x) \div y)

----------------------------------------------------------------------------
(* Expiry policy *)

\* parseCertificate: pem.Decode, the block type test, x509.ParseCertificate
parseCertificate(certBytes) ==
    IF certBytes.kind \in {"empty", "junk", "nofile"}
    THEN [err |-> "nopem", notAfter |-> 0]
    ELSE IF certBytes.kind # "cert" /\ certBytes.kind # "badder"
    THEN [err |-> "blocktype", notAfter |-> 0]
    ELSE IF certBytes.kind = "badder"
    THEN [err |-> "der", notAfter |-> 0]
    ELSE [err |-> "nil", notAfter |-> certBytes.notAfter]

\* remainingDays := int(time.Until(expirationDate).Hours() / 24)
remainingDays(notAfter, t) == TruncDiv(notAfter - t, HoursPerDay)

certExpiresSoonWrongCompare(certData, maxRemainingDays, t) ==
    LET p == parseCertificate(certData) IN
    IF p.err # "nil" THEN [soon |-> TRUE, err |-> TRUE]
    ELSE [soon |-> remainingDays(p.notAfter, t) < maxRemainingDays, err |-> FALSE]

\* certExpiresSoon, with the clock t that time.Until reads
certExpiresSoon(certData, maxRemainingDays, t) ==
    LET p == parseCertificate(certData) IN
    IF p.err # "nil" THEN [soon |-> TRUE, err |-> TRUE]
    ELSE [soon |-> remainingDays(p.notAfter, t) <= maxRemainingDays, err |-> FALSE]

----------------------------------------------------------------------------
(* Inputs *)

Roots == {"a", "b"}

\* the domain groups a caller may pass or a domains file may hold
Groups == {<< >>, <<"a">>, <<"b", "a">>}

\* the places where one storage operation can be made to fail
FaultPoints ==
    {"dlMkdir", "dl", "loadUser", "loadRegU", "saveUserJson", "saveUserPem",
     "client", "loadReg", "register", "saveReg", "obtain", "badIssued",
     "putCert", "putKey", "selfSigned", "mkdir", "writeCert", "writeKey"}

FaultSets == {F \in SUBSET FaultPoints : Cardinality(F) <= MaxFaults}

\* validity, in days, of the certificates the ACME issuer hands out
IssuerValidityDays == {90}

----------------------------------------------------------------------------
(* Local certificate directory: localCertDir/<domain>/{cert.pem, privkey.pem} *)

NoDir == [dir |-> FALSE, cert |-> NoFile, key |-> NoFile]

\* a removeExisting that removes the whole local certificate directory
removeExistingAll(lc, domain) == [r \in DOMAIN lc |-> NoDir]

\* removeExisting: os.RemoveAll of the domain's directory
removeExisting(lc, domain) == [lc EXCEPT ![domain] = NoDir]

writeCertToFilesToDiskSwapped(lc, domain, certData, privateKeyData, F) ==
    IF "mkdir" \in F
    THEN [err |-> TRUE, lc |-> lc]
    ELSE IF "writeCert" \in F
    THEN [err |-> TRUE, lc |-> [lc EXCEPT ![domain].dir = TRUE]]
    ELSE IF "writeKey" \in F
    THEN [err |-> TRUE,
          lc |-> [lc EXCEPT ![domain].dir = TRUE, ![domain].cert = privateKeyData]]
    ELSE [err |-> FALSE,
          lc |-> [lc EXCEPT ![domain] =
                     [dir |-> TRUE, cert |-> privateKeyData, key |-> certData]]]

writeCertToFilesToDiskNoKey(lc, domain, certData, privateKeyData, F) ==
    IF "mkdir" \in F
    THEN [err |-> TRUE, lc |-> lc]
    ELSE IF "writeCert" \in F
    THEN [err |-> TRUE, lc |-> [lc EXCEPT ![domain].dir = TRUE]]
    ELSE IF "writeKey" \in F
    THEN [err |-> TRUE,
          lc |-> [lc EXCEPT ![domain].dir = TRUE, ![domain].cert = certData]]
    ELSE [err |-> FALSE,
          lc |-> [lc EXCEPT ![domain].dir = TRUE, ![domain].cert = certData]]

\* writeCertToFilesToDisk: MkdirAll, WriteFile cert.pem, WriteFile privkey.pem
writeCertToFilesToDisk(lc, domain, certData, privateKeyData, F) ==
    IF "mkdir" \in F
    THEN [err |-> TRUE, lc |-> lc]
    ELSE IF "writeCert" \in F
    THEN [err |-> TRUE, lc |-> [lc EXCEPT ![domain].dir = TRUE]]
    ELSE IF "writeKey" \in F
    THEN [err |-> TRUE,
          lc |-> [lc EXCEPT ![domain].dir = TRUE, ![domain].cert = certData]]
    ELSE [err |-> FALSE,
          lc |-> [lc EXCEPT ![domain] =
                     [dir |-> TRUE, cert |-> certData, key |-> privateKeyData]]]

\* generateSelfSignedCert: a fresh key pair and a certificate signed by it
SelfSignedValidityDays == 30

generateSelfSignedCert(domainRoot, F) ==
    IF "selfSigned" \in F
    THEN [err |-> TRUE, cert |-> Nil, key |-> Nil]
    ELSE [err |-> FALSE,
          cert |-> CertPem(serial + 1, now + SelfSignedValidityDays * HoursPerDay,
                           domainRoot, "self"),
          key |-> KeyPem(serial + 1)]

----------------------------------------------------------------------------
(* DownloadCert and SaveCert of the two backends *)

\* LocalACMEStorage.DownloadCert
LocalDownloadCert(domainRoot, F) ==
    LET c == localCerts[domainRoot].cert
        k == localCerts[domainRoot].key
    IN  IF "dl" \in F \/ c.kind = "nofile" \/ IsEmpty(c)
        THEN [err |-> TRUE, cert |-> Nil, key |-> Nil, lc |-> localCerts]
        ELSE IF k.kind = "nofile" \/ IsEmpty(k)
        THEN [err |-> TRUE, cert |-> Nil, key |-> Nil, lc |-> localCerts]
        ELSE [err |-> FALSE, cert |-> c, key |-> k, lc |-> localCerts]

\* S3ACMEStorage.DownloadCert; lc is the local directory tree it leaves
S3DownloadCert(domainRoot, F) ==
    LET made == [localCerts EXCEPT ![domainRoot].dir = TRUE] IN
    IF ~localCerts[domainRoot].dir /\ "dlMkdir" \in F
    THEN [err |-> TRUE, cert |-> Nil, key |-> Nil, lc |-> localCerts]
    ELSE IF "dl" \in F \/ s3Cert[domainRoot].kind = "nofile"
    THEN [err |-> TRUE, cert |-> Nil, key |-> Nil, lc |-> made]
    ELSE IF s3Key[domainRoot].kind = "nofile"
    THEN [err |-> TRUE, cert |-> Nil, key |-> Nil, lc |-> made]
    ELSE [err |-> FALSE, cert |-> s3Cert[domainRoot], key |-> s3Key[domainRoot],
          lc |-> made]

\* a SaveCert of the Local backend that stores what it is given
LocalSaveCertStores(domainRoot, certData, privateKeyData, F) ==
    [err |-> FALSE, s3Cert |-> [s3Cert EXCEPT ![domainRoot] = certData],
     s3Key |-> [s3Key EXCEPT ![domainRoot] = privateKeyData]]

\* LocalACMEStorage.SaveCert
LocalSaveCert(domainRoot, certData, privateKeyData, F) ==
    [err |-> TRUE, s3Cert |-> s3Cert, s3Key |-> s3Key]

S3SaveCertSwapped(domainRoot, cert, privateKey, F) ==
    IF "putCert" \in F
    THEN [err |-> TRUE, s3Cert |-> s3Cert, s3Key |-> s3Key]
    ELSE IF "putKey" \in F
    THEN [err |-> TRUE, s3Cert |-> [s3Cert EXCEPT ![domainRoot] = privateKey],
          s3Key |-> s3Key]
    ELSE [err |-> FALSE, s3Cert |-> [s3Cert EXCEPT ![domainRoot] = privateKey],
          s3Key |-> [s3Key EXCEPT ![domainRoot] = cert]]

\* a SaveCert that uploads privkey.pem first and cert.pem second
S3SaveCertKeyFirst(domainRoot, cert, privateKey, F) ==
    IF "putKey" \in F
    THEN [err |-> TRUE, s3Cert |-> s3Cert, s3Key |-> s3Key]
    ELSE IF "putCert" \in F
    THEN [err |-> TRUE, s3Cert |-> s3Cert,
          s3Key |-> [s3Key EXCEPT ![domainRoot] = privateKey]]
    ELSE [err |-> FALSE, s3Cert |-> [s3Cert EXCEPT ![domainRoot] = cert],
          s3Key |-> [s3Key EXCEPT ![domainRoot] = privateKey]]

\* S3ACMEStorage.SaveCert: two uploads, cert.pem then privkey.pem
S3SaveCert(domainRoot, cert, privateKey, F) ==
    IF "putCert" \in F
    THEN [err |-> TRUE, s3Cert |-> s3Cert, s3Key |-> s3Key]
    ELSE IF "putKey" \in F
    THEN [err |-> TRUE, s3Cert |-> [s3Cert EXCEPT ![domainRoot] = cert],
          s3Key |-> s3Key]
    ELSE [err |-> FALSE, s3Cert |-> [s3Cert EXCEPT ![domainRoot] = cert],
          s3Key |-> [s3Key EXCEPT ![domainRoot] = privateKey]]

----------------------------------------------------------------------------
(* Account identity and registration                                        *)
(* acct.json     the user file LoadUser reads exists                        *)
(* acct.homeJson the user file LocalACMEStorage.SaveUser writes exists      *)
(* acct.pem      number of the account key in <email>.pem, 0 when absent    *)
(* acct.reg      number of the account key registration.json was registered *)
(*               with, 0 when absent                                        *)

NoAcct == [json |-> FALSE, homeJson |-> FALSE, pem |-> 0, reg |-> 0]

\* LoadRegistration of both backends, at fault point fp
LoadRegistration(a, F, fp) ==
    IF fp \in F \/ a.reg = 0 THEN [err |-> TRUE, reg |-> 0]
    ELSE [err |-> FALSE, reg |-> a.reg]

\* LoadUser of both backends: the user file, the key file, then LoadRegistration
LoadUser(a, F) ==
    IF "loadUser" \in F \/ ~a.json \/ a.pem = 0
    THEN [err |-> TRUE, key |-> 0, reg |-> 0]
    ELSE [err |-> FALSE, key |-> a.pem, reg |-> LoadRegistration(a, F, "loadRegU").reg]

\* SaveUser of both backends: the user file first, the key file second.
\* LocalACMEStorage writes the user file under loadmasterHomeDir and reads it
\* from the working directory.
SaveUser(a, key, F) ==
    IF "saveUserJson" \in F THEN [err |-> TRUE, acct |-> a]
    ELSE LET j == [a EXCEPT !.homeJson = (variant = "Local"),
                            !.json = IF variant = "Local" /\ ~cwdIsHome THEN a.json ELSE TRUE]
         IN  IF "saveUserPem" \in F THEN [err |-> TRUE, acct |-> j]
             ELSE [err |-> FALSE, acct |-> [j EXCEPT !.pem = key]]

\* getUser: load the identity, or create one with a new key ("newUser": the
\* key cannot be generated) and save it; a failed save is logged
getUser(a, F) ==
    The({ IF lu.err
          THEN IF "newUser" \in F
               THEN [err |-> TRUE, key |-> 0, reg |-> 0, created |-> FALSE, acct |-> a]
               ELSE [err |-> FALSE, key |-> keySerial + 1, reg |-> 0, created |-> TRUE,
                     acct |-> SaveUser(a, keySerial + 1, F).acct]
          ELSE [err |-> FALSE, key |-> lu.key, reg |-> lu.reg, created |-> FALSE,
                acct |-> a]
        : lu \in {LoadUser(a, F)} })

\* a getACMERegistration that registers without looking into storage
getACMERegistrationAlways(a, key, F) ==
    IF "register" \in F
    THEN [err |-> TRUE, reg |-> 0, registered |-> FALSE, acct |-> a]
    ELSE IF "saveReg" \in F
    THEN [err |-> TRUE, reg |-> 0, registered |-> TRUE, acct |-> a]
    ELSE [err |-> FALSE, reg |-> key, registered |-> TRUE, acct |-> [a EXCEPT !.reg = key]]

\* getACMERegistration: load the registration, or register and save it
getACMERegistration(a, key, F) ==
    The({ IF ~lr.err THEN [err |-> FALSE, reg |-> lr.reg, registered |-> FALSE, acct |-> a]
          ELSE IF "register" \in F
          THEN [err |-> TRUE, reg |-> 0, registered |-> FALSE, acct |-> a]
          ELSE IF "saveReg" \in F
          THEN [err |-> TRUE, reg |-> 0, registered |-> TRUE, acct |-> a]
          ELSE [err |-> FALSE, reg |-> key, registered |-> TRUE,
                acct |-> [a EXCEPT !.reg = key]]
        : lr \in {LoadRegistration(a, F, "loadReg")} })

\* getRegisteredACMEClient: getUser, getACMEClient, then the registration
\* when the loaded identity carries none
getRegisteredACMEClient(a, F) ==
    The({ IF u.err
          THEN [err |-> TRUE, key |-> 0, reg |-> 0, created |-> FALSE,
                registered |-> FALSE, acct |-> u.acct]
          ELSE IF "client" \in F
          THEN [err |-> TRUE, key |-> u.key, reg |-> 0, created |-> u.created,
                registered |-> FALSE, acct |-> u.acct]
          ELSE IF u.reg # 0
          THEN [err |-> FALSE, key |-> u.key, reg |-> u.reg, created |-> u.created,
                registered |-> FALSE, acct |-> u.acct]
          ELSE The({ [err |-> r.err, key |-> u.key, reg |-> r.reg, created |-> u.created,
                      registered |-> r.registered, acct |-> r.acct]
                   : r \in {getACMERegistration(u.acct, u.key, F)} })
        : u \in {getUser(a, F)} })

\* a generateTLS that asks for the first domain of the group only
generateTLSRootOnly(domains_, a, F, days) ==
    The({ IF c.err
          THEN [err |-> TRUE, cert |-> Nil, key |-> Nil, domain |-> "",
                obtained |-> << >>, client |-> c]
          ELSE IF "obtain" \in F
          THEN [err |-> TRUE, cert |-> Nil, key |-> Nil, domain |-> "",
                obtained |-> << <<domains_[1]>> >>, client |-> c]
          ELSE [err |-> FALSE,
                cert |-> IF "badIssued" \in F THEN BadDer
                         ELSE CertPem(serial + 1, now + days * HoursPerDay, domains_[1], "acme"),
                key |-> KeyPem(serial + 1),
                domain |-> domains_[1], obtained |-> << <<domains_[1]>> >>, client |-> c]
        : c \in {getRegisteredACMEClient(a, F)} })

\* generateTLS: one certificate.Obtain for the whole group, bundled
generateTLS(domains_, a, F, days) ==
    The({ IF c.err
          THEN [err |-> TRUE, cert |-> Nil, key |-> Nil, domain |-> "",
                obtained |-> << >>, client |-> c]
          ELSE IF "obtain" \in F
          THEN [err |-> TRUE, cert |-> Nil, key |-> Nil, domain |-> "",
                obtained |-> <<domains_>>, client |-> c]
          ELSE [err |-> FALSE,
                cert |-> IF "badIssued" \in F THEN BadDer
                         ELSE CertPem(serial + 1, now + days * HoursPerDay, domains_[1], "acme"),
                key |-> KeyPem(serial + 1),
                domain |-> domains_[1], obtained |-> <<domains_>>, client |-> c]
        : c \in {getRegisteredACMEClient(a, F)} })

\* renewACMECertificate: generateTLS, then the issued certificate must parse
renewACMECertificate(domains_, a, F, days) ==
    The({ IF g.err THEN g
          ELSE IF parseCertificate(g.cert).err # "nil"
          THEN [g EXCEPT !.err = TRUE, !.cert = Nil, !.key = Nil]
          ELSE g
        : g \in {generateTLS(domains_, a, F, days)} })

----------------------------------------------------------------------------
(* UpdateTLS, the reconcile operation                                       *)
(* Both operators return an outcome: how the call ended (result), the state *)
(* it leaves, and what it did on the way.                                   *)

NoRenew ==
    [err |-> TRUE, cert |-> Nil, key |-> Nil, domain |-> "", obtained |-> << >>,
     client |-> [err |-> TRUE, key |-> 0, reg |-> 0, created |-> FALSE,
                 registered |-> FALSE, acct |-> acct]]

\* the outcome of a call that has changed nothing yet
Outcome0 ==
    [result |-> "running", lc |-> localCerts, s3Cert |-> s3Cert, s3Key |-> s3Key,
     acct |-> acct, generated |-> FALSE, created |-> FALSE,
     loaded |-> [err |-> TRUE, cert |-> Nil, key |-> Nil],
     expiryChecked |-> FALSE, renewCalled |-> FALSE, renew |-> NoRenew,
     saveCalled |-> FALSE, saveArgs |-> << >>,
     selfSignedCalled |-> FALSE, selfSigned |-> [err |-> TRUE, cert |-> Nil, key |-> Nil],
     removed |-> FALSE]

\* an outcome after certExpiresSoon was asked
WithChecked(o) == [o EXCEPT !.expiryChecked = TRUE]

\* an outcome after renewACMECertificate returned rn
WithRenew(o, rn) ==
    [o EXCEPT !.renewCalled = TRUE, !.renew = rn, !.acct = rn.client.acct,
              !.created = rn.client.created, !.generated = ~rn.err]

\* a tail of UpdateTLS that removes the domain's directory before it knows
\* what it will write
publishRemovesFirst(o, domainRoot, certData, privateKeyData, F) ==
    IF IsEmpty(certData) \/ IsEmpty(privateKeyData)
    THEN The({ IF ss.err
               THEN [o EXCEPT !.selfSignedCalled = TRUE, !.selfSigned = ss,
                              !.removed = TRUE, !.lc = removeExisting(o.lc, domainRoot),
                              !.result = "errSelfSigned"]
               ELSE The({ [o EXCEPT !.selfSignedCalled = TRUE, !.selfSigned = ss,
                                    !.generated = TRUE, !.removed = TRUE, !.lc = w.lc,
                                    !.result = IF w.err THEN "errWrite" ELSE "ok"]
                        : w \in {writeCertToFilesToDisk(removeExisting(o.lc, domainRoot),
                                                        domainRoot, ss.cert, ss.key, F)} })
             : ss \in {generateSelfSignedCert(domainRoot, F)} })
    ELSE The({ [o EXCEPT !.removed = TRUE, !.lc = w.lc,
                         !.result = IF w.err THEN "errWrite" ELSE "ok"]
             : w \in {writeCertToFilesToDisk(removeExisting(o.lc, domainRoot), domainRoot,
                                             certData, privateKeyData, F)} })

\* the common tail of UpdateTLS: the self-signed fallback when either part is
\* empty, removeExisting, writeCertToFilesToDisk
publish(o, domainRoot, certData, privateKeyData, F) ==
    IF IsEmpty(certData) \/ IsEmpty(privateKeyData)
    THEN The({ IF ss.err
               THEN [o EXCEPT !.selfSignedCalled = TRUE, !.selfSigned = ss,
                              !.result = "errSelfSigned"]
               ELSE The({ [o EXCEPT !.selfSignedCalled = TRUE, !.selfSigned = ss,
                                    !.generated = TRUE, !.removed = TRUE, !.lc = w.lc,
                                    !.result = IF w.err THEN "errWrite" ELSE "ok"]
                        : w \in {writeCertToFilesToDisk(removeExisting(o.lc, domainRoot),
                                                        domainRoot, ss.cert, ss.key, F)} })
             : ss \in {generateSelfSignedCert(domainRoot, F)} })
    ELSE The({ [o EXCEPT !.removed = TRUE, !.lc = w.lc,
                         !.result = IF w.err THEN "errWrite" ELSE "ok"]
             : w \in {writeCertToFilesToDisk(removeExisting(o.lc, domainRoot), domainRoot,
                                             certData, privateKeyData, F)} })

\* an outcome after DownloadCert returned dl
WithLoaded(o, dl) ==
    [o EXCEPT !.loaded = [err |-> dl.err, cert |-> dl.cert, key |-> dl.key], !.lc = dl.lc]

\* an outcome after SaveCert(domainRoot, cert, key) returned sv
WithSave(o, domainRoot, cert, key, sv) ==
    [o EXCEPT !.saveCalled = TRUE, !.saveArgs = <<domainRoot, cert, key>>,
              !.s3Cert = sv.s3Cert, !.s3Key = sv.s3Key]

\* LocalACMEStorage.UpdateTLS: DownloadCert, renewACMECertificate (always),
\* then the common tail
LocalUpdateTLS(domainGroup, F, days) ==
    IF domainGroup = << >> THEN [Outcome0 EXCEPT !.result = "panic"]
    ELSE The({ publish(WithRenew(WithLoaded(Outcome0, dl), rn), domainGroup[1],
                       rn.cert, rn.key, F)
             : dl \in {LocalDownloadCert(domainGroup[1], F)},
               rn \in {renewACMECertificate(domainGroup, acct, F, days)} })

\* S3ACMEStorage.UpdateTLS: DownloadCert, certExpiresSoon, renewACMECertificate
\* and SaveCert when it is time to renew, then the common tail
S3UpdateTLS(domainGroup, F, days) ==
    IF domainGroup = << >> \/ storageNil THEN [Outcome0 EXCEPT !.result = "panic"]
    ELSE The({
        IF certExpiresSoon(dl.cert, MaxRemainingDaysBeforeCertExpiry, now).soon
        THEN The({
            IF rn.err
            THEN [WithRenew(WithChecked(WithLoaded(Outcome0, dl)), rn)
                     EXCEPT !.result = "errRenew"]
            ELSE The({
                IF sv.err
                THEN [WithSave(WithRenew(WithChecked(WithLoaded(Outcome0, dl)), rn),
                               domainGroup[1], rn.cert, rn.key, sv)
                         EXCEPT !.result = "errSave"]
                ELSE publish(WithSave(WithRenew(WithChecked(WithLoaded(Outcome0, dl)), rn),
                                      domainGroup[1], rn.cert, rn.key, sv),
                             domainGroup[1], rn.cert, rn.key, F)
              : sv \in {S3SaveCert(domainGroup[1], rn.cert, rn.key, F)} })
          : rn \in {renewACMECertificate(domainGroup, acct, F, days)} })
        ELSE publish(WithChecked(WithLoaded(Outcome0, dl)), domainGroup[1],
                     dl.cert, dl.key, F)
      : dl \in {S3DownloadCert(domainGroup[1], F)} })

\* storage.UpdateTLS: the method of the backend main selected
UpdateTLSOutcome(domainGroup, F, days) ==
    IF variant = "Local" THEN LocalUpdateTLS(domainGroup, F, days)
    ELSE S3UpdateTLS(domainGroup, F, days)

----------------------------------------------------------------------------
(* The storage operations as actions *)

TickHours == HoursPerDay \div 2

NotSaved == [set |-> FALSE, cert |-> Nil, key |-> Nil]

\* what a cache may hold before the process starts: [cert, key]
SeedRecords ==
    { [cert |-> NoFile, key |-> NoFile],
      [cert |-> CertPem(0, 62 * HoursPerDay, "a", "acme"), key |-> KeyPem(0)],
      [cert |-> CertPem(0, 61 * HoursPerDay, "a", "acme"), key |-> KeyPem(0)],
      [cert |-> CertPem(0, 10 * HoursPerDay, "a", "acme"), key |-> KeyPem(0)],
      [cert |-> CertPem(0, 62 * HoursPerDay, "a", "acme"), key |-> NoFile],
      [cert |-> CertPem(0, 62 * HoursPerDay, "a", "acme"), key |-> Nil],
      [cert |-> Junk, key |-> KeyPem(0)] }

\* the arguments a caller passes to SaveCert
ArgCerts == {Nil, CertPem(100, 90 * HoursPerDay, "a", "acme")}
ArgKeys == {Nil, KeyPem(100)}

\* what a call leaves in last: how it ended and what it did, without the
\* state it left (that is in the variables)
Did(o) ==
    [result |-> o.result,
     loaded |-> o.loaded,
     expiryChecked |-> o.expiryChecked,
     renewCalled |-> o.renewCalled,
     renewErr |-> o.renew.err,
     newCert |-> o.renew.cert,
     newKey |-> o.renew.key,
     obtained |-> o.renew.obtained,
     usedKey |-> o.renew.client.key,
     usedReg |-> o.renew.client.reg,
     created |-> o.renew.client.created,
     registered |-> o.renew.client.registered,
     saveCalled |-> o.saveCalled,
     saveArgs |-> o.saveArgs,
     selfSignedCalled |-> o.selfSignedCalled,
     selfSigned |-> o.selfSigned,
     removed |-> o.removed]

Call(op, group, o) ==
    [op |-> op, seq |-> 1 - last.seq, group |-> group, did |-> Did(o)]

\* one call storage.UpdateTLS(domainGroup), with the faults F and an issuer
\* whose certificates are valid for days. With fresh, the call runs only while
\* the key pairs it generates get numbers never used before; without, the
\* numbers stop growing at the bounds.
UpdateTLSEffect(domainGroup, F, days, fresh) ==
    \E o \in {UpdateTLSOutcome(domainGroup, F, days)} :
    /\ fresh => (o.generated => serial < MaxSerial)
    /\ fresh => (o.created => keySerial < MaxKeys)
    /\ localCerts' = o.lc
    /\ s3Cert' = o.s3Cert
    /\ s3Key' = o.s3Key
    /\ acct' = o.acct
    /\ serial' = IF o.generated /\ serial < MaxSerial THEN serial + 1 ELSE serial
    /\ keySerial' = IF o.created /\ keySerial < MaxKeys THEN keySerial + 1 ELSE keySerial
    /\ saved' = IF o.saveCalled
                THEN [saved EXCEPT ![domainGroup[1]] =
                         IF o.result \in {"ok", "errWrite", "errSelfSigned"}
                         THEN [set |-> TRUE, cert |-> o.saveArgs[2], key |-> o.saveArgs[3]]
                         ELSE NotSaved]
                ELSE saved
    /\ last' = Call("UpdateTLS", domainGroup, o)
    /\ UNCHANGED << variant, storageNil, cwdIsHome >>

UpdateTLS ==
    \E g \in Groups, F \in FaultSets, days \in IssuerValidityDays :
        /\ UpdateTLSEffect(g, F, days, TRUE)
        /\ UNCHANGED << now, mainVars, exVars >>

\* one call storage.SaveCert(domainRoot, cert, key)
SaveCert ==
    \E r \in Roots, c \in ArgCerts, k \in ArgKeys, F \in SUBSET {"putCert", "putKey"} :
        LET sv == IF variant = "Local" THEN LocalSaveCert(r, c, k, F)
                  ELSE S3SaveCert(r, c, k, F)
        IN  /\ s3Cert' = sv.s3Cert
            /\ s3Key' = sv.s3Key
            /\ saved' = IF variant = "Local" THEN saved
                        ELSE [saved EXCEPT ![r] =
                                 IF sv.err THEN NotSaved
                                 ELSE [set |-> TRUE, cert |-> c, key |-> k]]
            /\ last' = Call("SaveCert", <<r>>,
                            [Outcome0 EXCEPT !.saveCalled = TRUE, !.saveArgs = <<r, c, k>>,
                                             !.s3Cert = sv.s3Cert, !.s3Key = sv.s3Key,
                                             !.result = IF sv.err THEN "err" ELSE "ok"])
            /\ UNCHANGED << variant, storageNil, cwdIsHome, now, serial, keySerial,
                            localCerts, acct, mainVars, exVars >>

\* one call storage.DownloadCert(domainRoot)
DownloadCert ==
    \E r \in Roots, F \in SUBSET {"dlMkdir", "dl"} :
        LET dl == IF variant = "Local" THEN LocalDownloadCert(r, F)
                  ELSE S3DownloadCert(r, F)
        IN  /\ localCerts' = dl.lc
            /\ last' = Call("DownloadCert", <<r>>,
                            [Outcome0 EXCEPT !.lc = dl.lc,
                                 !.loaded = [err |-> dl.err, cert |-> dl.cert, key |-> dl.key],
                                 !.result = IF dl.err THEN "err" ELSE "ok"])
            /\ UNCHANGED << variant, storageNil, cwdIsHome, now, serial, keySerial,
                            s3Cert, s3Key, acct, saved, mainVars, exVars >>

\* time passes
Tick ==
    /\ now < MaxTicks * TickHours
    /\ now' = now + TickHours
    /\ UNCHANGED << variant, storageNil, cwdIsHome, serial, keySerial, localCerts,
                    s3Cert, s3Key, acct, last, saved, mainVars, exVars >>

NoCall ==
    [op |-> "none", seq |-> 0, group |-> << >>,
     did |-> [result |-> "running",
              loaded |-> [err |-> TRUE, cert |-> Nil, key |-> Nil],
              expiryChecked |-> FALSE, renewCalled |-> FALSE, renewErr |-> TRUE,
              newCert |-> Nil, newKey |-> Nil, obtained |-> << >>,
              usedKey |-> 0, usedReg |-> 0, created |-> FALSE, registered |-> FALSE,
              saveCalled |-> FALSE, saveArgs |-> << >>,
              selfSignedCalled |-> FALSE,
              selfSigned |-> [err |-> TRUE, cert |-> Nil, key |-> Nil],
              removed |-> FALSE]]

\* main and the expiry test bench at rest
NoDomains == [nil |-> TRUE, groups |-> << >>]
NoPass ==
    [kind |-> "none", cfg |-> << >>, done |-> << >>, errs |-> << >>, latest |-> NoDomains]

MainIdle ==
    /\ pc = "off"
    /\ domains = NoDomains
    /\ domainsFile = [ok |-> TRUE, groups |-> << >>]
    /\ queue = << >>
    /\ pass = NoPass
    /\ events = 0
    /\ writes = 0
    /\ idle = 0
    /\ sinceTimer = 0
    /\ reloadErrs = 0

ExIdle ==
    /\ exIn = [cert |-> Nil, w |-> 0, now |-> 0]
    /\ exOut = [called |-> FALSE, soon |-> FALSE, err |-> FALSE]

\* the state of the storage before the first call: the cache of one domain
\* root holds a seed record, no account exists
StoreInit ==
    /\ variant \in {"Local", "Remote"}
    /\ cwdIsHome \in IF variant = "Local" THEN BOOLEAN ELSE {TRUE}
    /\ now = 0
    /\ serial = 0
    /\ keySerial = 0
    /\ acct = NoAcct
    /\ \E sd \in SeedRecords :
          /\ localCerts = [r \in Roots |->
                IF variant = "Local" /\ r = "a" /\ sd.cert.kind # "nofile"
                THEN [dir |-> TRUE, cert |-> sd.cert, key |-> sd.key] ELSE NoDir]
          /\ s3Cert = [r \in Roots |->
                IF variant = "Remote" /\ r = "a" THEN sd.cert ELSE NoFile]
          /\ s3Key = [r \in Roots |->
                IF variant = "Remote" /\ r = "a" THEN sd.key ELSE NoFile]
    /\ last = NoCall
    /\ saved = [r \in Roots |-> NotSaved]

Init ==
    /\ StoreInit
    /\ storageNil = FALSE
    /\ MainIdle
    /\ ExIdle

Next == UpdateTLS \/ Tick

Spec == Init /\ [][Next]_vars

----------------------------------------------------------------------------
(* The storage interface called directly *)

NextStore == SaveCert \/ DownloadCert

SpecStore == Init /\ [][NextStore]_vars

----------------------------------------------------------------------------
(* The expiry policy applied to chosen inputs *)

ExWindows == {0, 1, MaxRemainingDaysBeforeCertExpiry}

ExHours ==
    {(w + d) * HoursPerDay + e : w \in ExWindows, d \in {-1, 0, 1}, e \in {-1, 0, 1}}

ExCerts ==
    {Nil, Junk, KeyPem(0), BadDer} \cup {CertPem(0, h, "a", "acme") : h \in ExHours}

StoreIdle ==
    /\ variant = "Local"
    /\ storageNil = FALSE
    /\ cwdIsHome = TRUE
    /\ now = 0
    /\ serial = 0
    /\ keySerial = 0
    /\ localCerts = [r \in Roots |-> NoDir]
    /\ s3Cert = [r \in Roots |-> NoFile]
    /\ s3Key = [r \in Roots |-> NoFile]
    /\ acct = NoAcct
    /\ last = NoCall
    /\ saved = [r \in Roots |-> NotSaved]

InitExpiry ==
    /\ StoreIdle
    /\ MainIdle
    /\ exIn \in [cert : ExCerts, w : ExWindows, now : {0, TickHours}]
    /\ exOut = [called |-> FALSE, soon |-> FALSE, err |-> FALSE]

\* one call certExpiresSoon(certData, maxRemainingDaysBeforeCertExpiry)
CheckExpiry ==
    /\ ~exOut.called
    /\ \E r \in {certExpiresSoon(exIn.cert, exIn.w, exIn.now)} :
          exOut' = [called |-> TRUE, soon |-> r.soon, err |-> r.err]
    /\ UNCHANGED << exIn, storeVars, mainVars >>

SpecExpiry == InitExpiry /\ [][CheckExpiry]_vars

----------------------------------------------------------------------------
(* The scheduler: main *)

IsPrefix(s, t) == Len(s) <= Len(t) /\ SubSeq(t, 1, Len(s)) = s

RECURSIVE SeqsUpTo(_, _)
SeqsUpTo(S, n) ==
    IF n = 0 THEN {<< >>}
    ELSE LET shorter == SeqsUpTo(S, n - 1)
         IN  shorter \cup {Append(c, g) : c \in shorter, g \in S}

\* the lists of groups a domains file may hold: groups are not repeated and
\* an empty group, if any, comes first
Configs ==
    {c \in SeqsUpTo(Groups, MaxGroups) :
        /\ \A i, j \in 1..Len(c) : i # j => c[i] # c[j]
        /\ \A i \in 2..Len(c) : c[i] # << >>}

\* contents of the domains file: ok = FALSE is a missing or malformed file
FileContents ==
    {[ok |-> FALSE, groups |-> << >>]} \cup {[ok |-> TRUE, groups |-> c] : c \in Configs}

\* the faults injected into the UpdateTLS calls of a pass: none, the issuer
\* refuses, the key file cannot be written
MainFaultSets == {{}, {"obtain"}, {"writeKey"}}

\* a loader that answers a malformed file with an empty list and no error
LoadDomainsConfigLenient(file) ==
    [err |-> FALSE,
     domains |-> [nil |-> FALSE, groups |-> IF file.ok THEN file.groups ELSE << >>]]

LoadDomainsConfig(file) ==
    IF file.ok THEN [err |-> FALSE, domains |-> [nil |-> FALSE, groups |-> file.groups]]
    ELSE [err |-> TRUE, domains |-> NoDomains]

\* flag parsing, LoadAppConfig and the creation of the local certificate
\* directory: each ends the process when it fails
Boot ==
    /\ pc = "boot"
    /\ \E failed \in {"none", "LoadAppConfig", "MkdirAll"} :
          pc' = IF failed = "none" THEN "storage" ELSE "fatalBoot"
    /\ UNCHANGED << storeVars, domains, domainsFile, queue, pass, events, writes,
                    sinceTimer, idle, reloadErrs, exVars >>

\* the choice of the storage: an error of NewS3ACMEStorage is only logged
SelectStorage ==
    /\ pc = "storage"
    /\ \E failed \in (IF variant = "Remote" THEN BOOLEAN ELSE {FALSE}) :
          storageNil' = failed
    /\ pc' = "load"
    /\ UNCHANGED << variant, cwdIsHome, now, serial, keySerial, localCerts, s3Cert,
                    s3Key, acct, last, saved, domains, domainsFile, queue, pass,
                    events, writes, sinceTimer, idle, reloadErrs, exVars >>

\* the start of a pass over the list groups
StartPass(kind, groups, latest) ==
    /\ queue' = groups
    /\ pass' = [kind |-> kind, cfg |-> groups, done |-> << >>, errs |-> << >>,
                latest |-> latest]

\* the load at startup
StartupLoad ==
    /\ pc = "load"
    /\ \E r \in {LoadDomainsConfig(domainsFile)} :
          /\ domains' = r.domains
          /\ IF r.err
             THEN /\ pc' = "watch"
                  /\ UNCHANGED << queue, pass >>
             ELSE /\ pc' = IF r.domains.groups = << >> THEN "watch" ELSE "startupPass"
                  /\ StartPass("startup", r.domains.groups, r.domains)
    /\ UNCHANGED << storeVars, domainsFile, events, writes, sinceTimer, idle, reloadErrs, exVars >>

\* one iteration of a range loop over the groups: storage.UpdateTLS(group),
\* its error logged or dropped; a panic ends the process
PassStep(passPc, afterPc) ==
    /\ pc = passPc
    /\ queue # << >>
    /\ \E F \in MainFaultSets, days \in IssuerValidityDays :
          UpdateTLSEffect(Head(queue), F, days, FALSE)
    /\ IF last'.did.result = "panic"
       THEN /\ pc' = "panic"
            /\ UNCHANGED << queue, pass >>
       ELSE /\ queue' = Tail(queue)
            /\ pass' = [pass EXCEPT !.done = Append(pass.done, Head(queue)),
                                    !.errs = Append(pass.errs, last'.did.result # "ok")]
            /\ pc' = IF Tail(queue) = << >> THEN afterPc ELSE passPc
    /\ idle' = 0
    /\ UNCHANGED << now, domains, domainsFile, events, writes, sinceTimer, reloadErrs, exVars >>

StartupPass == PassStep("startupPass", "watch")

\* fsnotify.NewWatcher and watcher.Add: log.Fatal when one fails
Watch ==
    /\ pc = "watch"
    /\ \E failed \in {"none", "NewWatcher", "Add"} :
          pc' = IF failed = "none" THEN "select" ELSE "fatalWatch"
    /\ events' = 0
    /\ idle' = 0
    /\ sinceTimer' = 0
    /\ UNCHANGED << storeVars, domains, domainsFile, queue, pass, writes, reloadErrs, exVars >>

Watching == pc \in {"select", "eventPass", "timerPass"}

InSelectOrInPass == Watching

\* main is blocked in the select statement: the one goroutine of main takes
\* the next event only there
InSelect == pc = "select"

\* the process has ended: log.Fatal before the watch loop, or a panic
Terminated == pc \in {"fatalBoot", "fatalWatch", "panic"}

\* select takes a write or create event: the file is loaded into a variable
\* domains of the case block, and a pass over it runs
EventBranch ==
    /\ InSelect
    /\ events > 0
    /\ events' = events - 1
    /\ idle' = 0
    /\ \E r \in {LoadDomainsConfig(domainsFile)} :
          IF r.err
          THEN /\ reloadErrs' = reloadErrs + 1
               /\ UNCHANGED << pc, queue, pass >>
          ELSE /\ pc' = IF r.domains.groups = << >> THEN "select" ELSE "eventPass"
               /\ StartPass("event", r.domains.groups, r.domains)
               /\ UNCHANGED reloadErrs
    /\ UNCHANGED << storeVars, domains, domainsFile, writes, sinceTimer, exVars >>

EventPass == PassStep("eventPass", "select")

\* select takes an event of another kind (chmod, remove, rename)
IgnoredEvent ==
    /\ InSelect
    /\ idle' = 0
    /\ UNCHANGED << storeVars, pc, domains, domainsFile, queue, pass, events, writes,
                    sinceTimer, reloadErrs, exVars >>

\* select takes a watcher error: it is logged
WatcherError ==
    /\ InSelect
    /\ idle' = 0
    /\ UNCHANGED << storeVars, pc, domains, domainsFile, queue, pass, events, writes,
                    sinceTimer, reloadErrs, exVars >>

\* select takes the timer: a pass over main's variable domains
TimerBranch ==
    /\ InSelect
    /\ idle >= TimerHours
    /\ idle' = 0
    /\ sinceTimer' = 0
    /\ IF domains.nil
       THEN /\ pc' = "panic"
            /\ queue' = << >>
            /\ pass' = [kind |-> "timer", cfg |-> << >>, done |-> << >>,
                        errs |-> << >>, latest |-> pass.latest]
       ELSE /\ pc' = IF domains.groups = << >> THEN "select" ELSE "timerPass"
            /\ StartPass("timer", domains.groups, pass.latest)
    /\ UNCHANGED << storeVars, domains, domainsFile, events, writes, reloadErrs, exVars >>

TimerPass == PassStep("timerPass", "select")

\* the domains file is written; the watcher, once added, queues an event
FileChange ==
    /\ pc \notin {"boot", "storage", "load"}
    /\ ~Terminated
    /\ writes < MaxWrites
    /\ writes' = writes + 1
    /\ domainsFile' \in FileContents
    /\ events' = IF Watching THEN events + 1 ELSE events
    /\ UNCHANGED << storeVars, pc, domains, queue, pass, idle, sinceTimer, reloadErrs, exVars >>

\* time passes while main waits in select
MainTick ==
    /\ InSelect
    /\ idle < TimerHours
    /\ now < MaxMainTicks * TickHours
    /\ now' = now + TickHours
    /\ idle' = idle + TickHours
    /\ sinceTimer' = sinceTimer + TickHours
    /\ UNCHANGED << variant, storageNil, cwdIsHome, serial, keySerial, localCerts,
                    s3Cert, s3Key, acct, last, saved, pc, domains, domainsFile,
                    queue, pass, events, writes, reloadErrs, exVars >>

\* main starts on a machine without cached certificates or account
InitMain ==
    /\ variant \in {"Local", "Remote"}
    /\ storageNil = FALSE
    /\ cwdIsHome = TRUE
    /\ now = 0
    /\ serial = 0
    /\ keySerial = 0
    /\ localCerts = [r \in Roots |-> NoDir]
    /\ s3Cert = [r \in Roots |-> NoFile]
    /\ s3Key = [r \in Roots |-> NoFile]
    /\ acct = NoAcct
    /\ last = NoCall
    /\ saved = [r \in Roots |-> NotSaved]
    /\ pc = "boot"
    /\ domains = NoDomains
    /\ domainsFile \in FileContents
    /\ queue = << >>
    /\ pass = NoPass
    /\ events = 0
    /\ writes = 0
    /\ idle = 0
    /\ sinceTimer = 0
    /\ reloadErrs = 0
    /\ ExIdle

NextMain ==
    \/ Boot
    \/ SelectStorage
    \/ StartupLoad
    \/ StartupPass
    \/ Watch
    \/ EventBranch
    \/ EventPass
    \/ IgnoredEvent
    \/ WatcherError
    \/ TimerBranch
    \/ TimerPass
    \/ FileChange
    \/ MainTick

SpecMain == InitMain /\ [][NextMain]_vars

----------------------------------------------------------------------------
(* Vocabulary of the properties *)

\* the last operation was an UpdateTLS call that returned
Reconciled == last.op = "UpdateTLS" /\ last.did.result # "panic"

\* the domain root of the last call
LastRoot == last.group[1]

\* the local directory of r holds a non-empty cert.pem and a non-empty privkey.pem
HasFiles(lc, r) ==
    /\ lc[r].cert.kind \notin {"nofile", "empty"}
    /\ lc[r].key.kind \notin {"nofile", "empty"}

\* the cache DownloadCert reads for r
CacheCert(r) == IF variant = "Local" THEN localCerts[r].cert ELSE s3Cert[r]
CacheKey(r) == IF variant = "Local" THEN localCerts[r].key ELSE s3Key[r]

\* this step is an UpdateTLS call that returns
ReconcileStep == last'.seq # last.seq /\ last'.op = "UpdateTLS" /\ last'.did.result # "panic"

\* the certificate bytes parse and at least one full day more than the renewal
\* window remains
FarFromExpiry(certBytes, t) ==
    /\ parseCertificate(certBytes).err = "nil"
    /\ certBytes.notAfter - t >= (MaxRemainingDaysBeforeCertExpiry + 1) * HoursPerDay

----------------------------------------------------------------------------
(* C1: whenever an UpdateTLS call ends without a local-filesystem failure  *)
(* (a failure of the self-signed generator set aside as well), the local   *)
(* directory of the group's first domain holds a non-empty certificate     *)
(* file and a non-empty key file.                                          *)
C1_LocalFilesAfterReconcile ==
    (Reconciled /\ last.did.result \notin {"errWrite", "errSelfSigned"})
        => HasFiles(localCerts, LastRoot)

\* the claim does hold of the Local backend
C1_LocalBackendOnly ==
    (variant = "Local" /\ Reconciled /\ last.did.result \notin {"errWrite", "errSelfSigned"})
        => HasFiles(localCerts, LastRoot)

(* C2: when no cached record exists for the domain root and the renewal    *)
(* fails, the call returns no error and the local files are the output of  *)
(* the self-signed generator for the domain root (local write failures and *)
(* generator failures set aside).                                          *)
C2_FallbackGuarantee ==
    [][ ( /\ ReconcileStep
          /\ CacheCert(last'.group[1]).kind = "nofile"
          /\ CacheKey(last'.group[1]).kind = "nofile"
          /\ last'.did.renewCalled /\ last'.did.renewErr
          /\ last'.did.result \notin {"errWrite", "errSelfSigned"} )
        => ( /\ last'.did.result = "ok"
             /\ last'.did.selfSignedCalled
             /\ last'.did.selfSigned.cert.by = "self"
             /\ last'.did.selfSigned.cert.subject = last'.group[1]
             /\ localCerts'[last'.group[1]] =
                   [dir |-> TRUE, cert |-> last'.did.selfSigned.cert,
                    key |-> last'.did.selfSigned.key] ) ]_vars

(* C3: when the Load step returned a record with non-empty certificate and *)
(* key and the renewal attempted in the call fails, the call does not      *)
(* abort, no self-signed certificate is generated and the cached           *)
(* certificate and key are what is published (local write failures set     *)
(* aside).                                                                 *)
C3_KeepCachedOnRenewalFailure ==
    ( /\ Reconciled
      /\ ~last.did.loaded.err
      /\ ~IsEmpty(last.did.loaded.cert) /\ ~IsEmpty(last.did.loaded.key)
      /\ last.did.renewCalled /\ last.did.renewErr
      /\ last.did.result # "errWrite" )
    => ( /\ last.did.result = "ok"
         /\ ~last.did.selfSignedCalled
         /\ localCerts[LastRoot].cert = last.did.loaded.cert
         /\ localCerts[LastRoot].key = last.did.loaded.key )

(* C4: when the cached certificate of a group is far from expiry and the   *)
(* previous call was a successful reconcile of the same group, a reconcile *)
(* call that loads the record and succeeds triggers no renewal and leaves  *)
(* the local certificate and key files byte-identical.                     *)
C4_Idempotence ==
    [][ ( /\ ReconcileStep
          /\ last.op = "UpdateTLS" /\ last.group = last'.group
          /\ last.did.result = "ok"
          /\ FarFromExpiry(CacheCert(last'.group[1]), now)
          /\ ~IsEmpty(CacheKey(last'.group[1])) /\ CacheKey(last'.group[1]).kind # "nofile"
          /\ ~last'.did.loaded.err
          /\ last'.did.result = "ok" )
        => ( /\ ~last'.did.renewCalled
             /\ localCerts'[last'.group[1]] = localCerts[last'.group[1]] ) ]_vars

\* the claim does hold of the Remote backend
C4_RemoteBackendOnly ==
    [][ ( /\ variant = "Remote"
          /\ ReconcileStep
          /\ last.op = "UpdateTLS" /\ last.group = last'.group
          /\ last.did.result = "ok"
          /\ FarFromExpiry(CacheCert(last'.group[1]), now)
          /\ ~IsEmpty(CacheKey(last'.group[1])) /\ CacheKey(last'.group[1]).kind # "nofile"
          /\ ~last'.did.loaded.err
          /\ last'.did.result = "ok" )
        => ( /\ ~last'.did.renewCalled
             /\ localCerts'[last'.group[1]] = localCerts[last'.group[1]] ) ]_vars

(* C5: certExpiresSoon with window W returns false when more than W days   *)
(* of validity remain, true when at most W days remain, and true together  *)
(* with an error for bytes that do not parse, the empty record included.   *)
C5_ExpiryPolicyByDuration ==
    exOut.called =>
        LET p == parseCertificate(exIn.cert)
            left == exIn.cert.notAfter - exIn.now
        IN  /\ (p.err = "nil" /\ left > exIn.w * HoursPerDay) => ~exOut.soon
            /\ (p.err = "nil" /\ left <= exIn.w * HoursPerDay) => exOut.soon
            /\ (p.err # "nil") => (exOut.soon /\ exOut.err)

(* C5 amended: certExpiresSoon counts the remaining validity in whole days *)
(* (hours / 24, truncated toward zero): it returns false when at least     *)
(* W + 1 full days remain, true (without error) when less than W + 1 days  *)
(* remain, and true together with an error for bytes that do not parse,    *)
(* the empty record included.                                              *)
C5_ExpiryPolicyWholeDays ==
    exOut.called =>
        LET p == parseCertificate(exIn.cert)
            left == exIn.cert.notAfter - exIn.now
        IN  /\ (p.err = "nil" /\ left >= (exIn.w + 1) * HoursPerDay)
                  => (~exOut.soon /\ ~exOut.err)
            /\ (p.err = "nil" /\ left < (exIn.w + 1) * HoursPerDay)
                  => (exOut.soon /\ ~exOut.err)
            /\ (exIn.cert.kind \in {"empty", "junk", "key", "badder"})
                  => (exOut.soon /\ exOut.err)

\* the policy ran on a certificate with more than W days but less than W + 1 left
C5_Witness ==
    /\ exOut.called
    /\ exIn.cert.kind = "cert"
    /\ exIn.cert.notAfter - exIn.now > exIn.w * HoursPerDay
    /\ exIn.cert.notAfter - exIn.now < (exIn.w + 1) * HoursPerDay
    /\ exOut.soon

(* C6: UpdateTLS returns an error only when publishing to the local file   *)
(* system fails (a failure of the self-signed generator set aside).        *)
C6_OnlyLocalWriteErrors ==
    (Reconciled /\ last.did.result # "ok")
        => last.did.result \in {"errWrite", "errSelfSigned"}

\* the claim does hold of the Local backend
C6_LocalBackendOnly ==
    (variant = "Local" /\ Reconciled /\ last.did.result # "ok")
        => last.did.result \in {"errWrite", "errSelfSigned"}

(* C7: healthy renewal. When the call loaded a cached certificate whose    *)
(* remaining validity is within the renewal window, the issuer returned a  *)
(* new valid certificate and neither the upload nor the local file system  *)
(* failed, the call succeeds, the local certificate and key files are the  *)
(* newly issued ones and, on the Remote backend, so are the stored         *)
(* objects of the domain root.                                             *)
HealthyRenewal ==
    /\ Reconciled
    /\ ~last.did.loaded.err
    /\ parseCertificate(last.did.loaded.cert).err = "nil"
    /\ certExpiresSoon(last.did.loaded.cert, MaxRemainingDaysBeforeCertExpiry, now).soon
    /\ last.did.renewCalled /\ ~last.did.renewErr
    /\ last.did.result \notin {"errSave", "errWrite"}

C7_HealthyRenewal ==
    HealthyRenewal =>
        /\ last.did.result = "ok"
        /\ last.did.newCert.kind = "cert" /\ last.did.newCert.by = "acme"
        /\ localCerts[LastRoot] =
              [dir |-> TRUE, cert |-> last.did.newCert, key |-> last.did.newKey]
        /\ (variant = "Remote" =>
              /\ s3Cert[LastRoot] = last.did.newCert
              /\ s3Key[LastRoot] = last.did.newKey)

C7_Witness == HealthyRenewal /\ variant = "Remote" /\ last.did.loaded.cert # last.did.newCert

(* C8: on the Remote backend, after SaveCert(domainRoot, cert, key)        *)
(* returned success and until the next SaveCert for that domain root, a    *)
(* DownloadCert(domainRoot) that the blob store serves returns exactly     *)
(* cert and key, whatever is saved for other domain roots.                 *)
C8_RemoteRoundTrip ==
    \A r \in Roots :
        (variant = "Remote" /\ saved[r].set) =>
            /\ S3DownloadCert(r, {}).err = FALSE
            /\ S3DownloadCert(r, {}).cert = saved[r].cert
            /\ S3DownloadCert(r, {}).key = saved[r].key
            /\ ( /\ last.op = "DownloadCert" /\ last.group = <<r>>
                 /\ last.did.result = "ok" )
               => ( /\ last.did.loaded.cert = saved[r].cert
                    /\ last.did.loaded.key = saved[r].key )

\* a record was saved for one root, another record for the other root after
\* it, and the first root was downloaded
C8_Witness ==
    /\ variant = "Remote"
    /\ saved["a"].set /\ saved["b"].set
    /\ saved["a"].cert.kind = "cert" /\ saved["b"].cert.kind = "empty"
    /\ last.op = "DownloadCert" /\ last.group = <<"a">> /\ last.did.result = "ok"


(* C9: the pass run for a write-or-create event whose reload succeeded     *)
(* reconciles the groups of the configuration that reload returned, each   *)
(* once and in configuration order, and no other group: while the pass     *)
(* runs the groups reconciled are a prefix of that list, and once main has *)
(* left the pass they are the whole list.                                  *)
C9_ReloadPass ==
    pass.kind = "event" =>
        /\ pass.cfg = pass.latest.groups
        /\ IsPrefix(pass.done, pass.latest.groups)
        /\ pc # "eventPass" => pass.done = pass.latest.groups

\* a storage was constructed and the configuration holds no empty group
WellFormedRun ==
    /\ ~storageNil
    /\ \A i \in 1..Len(pass.cfg) : pass.cfg[i] # << >>

(* C9, on runs whose storage was constructed and whose reloaded            *)
(* configuration holds no empty group: the pass of the event reconciles    *)
(* exactly the groups of the reloaded configuration, in order.             *)
C9_ReloadPassWellFormed ==
    (pass.kind = "event" /\ WellFormedRun) =>
        /\ pass.cfg = pass.latest.groups
        /\ IsPrefix(pass.done, pass.latest.groups)
        /\ pc # "eventPass" => pass.done = pass.latest.groups

\* the file went from one group to two and the pass of the event is over
C9_Witness ==
    /\ pass.kind = "event" /\ pc = "select"
    /\ Len(domains.groups) = 1
    /\ pass.done = << <<"b", "a">>, <<"a">> >>

(* C10: a timer pass that starts after a configuration was loaded at       *)
(* startup iterates the list of the most recent successful load, be it the *)
(* startup load or a later reload.                                         *)
C10_TimerPassUsesLatest ==
    (pass.kind = "timer" /\ ~domains.nil) => pass.cfg = pass.latest.groups

(* C10, as the code has it: a timer pass iterates the list loaded at       *)
(* startup, whatever was reloaded since.                                   *)
C10_TimerPassUsesStartup ==
    (pass.kind = "timer" /\ ~domains.nil) => pass.cfg = domains.groups

\* a timer pass ran over the startup list after a reload returned another list
C10_Witness ==
    /\ pass.kind = "timer" /\ ~domains.nil
    /\ pass.latest.groups # domains.groups
    /\ pass.done = domains.groups /\ pass.done # << >>

(* C11: while main is in the watch loop a timer pass starts every 24      *)
(* hours, whatever events and watcher errors are received in between:      *)
(* main never waits in select with more than 24 hours gone since the watch *)
(* loop was entered or the timer last fired.                               *)
C11_TimerEvery24Hours ==
    pc = "select" => sinceTimer <= TimerHours

(* C11, as the code has it: the timer fires only after 24 hours in which   *)
(* select took no event and no watcher error.                              *)
C11_TimerNeedsIdleDay ==
    [][ (pass'.kind = "timer" /\ sinceTimer' = 0 /\ idle' = 0 /\ pc = "select"
         /\ pass' # pass) => idle >= TimerHours ]_vars

(* C12: the startup pass reconciles every group of the configuration      *)
(* loaded at startup, each once and in configuration order, before the     *)
(* watch loop is entered: while it runs the groups reconciled are a prefix *)
(* of the list, and once main has left it they are the whole list,         *)
(* whether or not a call returned an error.                                *)
C12_StartupPass ==
    pass.kind = "startup" =>
        /\ pass.cfg = domains.groups
        /\ IsPrefix(pass.done, domains.groups)
        /\ pc # "startupPass" => pass.done = domains.groups

(* C12, on runs whose storage was constructed and whose configuration      *)
(* holds no empty group.                                                   *)
C12_StartupPassWellFormed ==
    (pass.kind = "startup" /\ WellFormedRun) =>
        /\ pass.cfg = domains.groups
        /\ IsPrefix(pass.done, domains.groups)
        /\ pc # "startupPass" => pass.done = domains.groups

\* the watch loop was entered after a startup pass over two groups in which
\* the call for the first group returned an error
C12_Witness ==
    /\ pass.kind = "startup" /\ pc = "select"
    /\ pass.done = << <<"a">>, <<"b", "a">> >>
    /\ pass.errs[1] /\ ~pass.errs[2]

\* no group of the list is empty
NoEmptyGroup(groups) == \A i \in 1..Len(groups) : groups[i] # << >>

(* C13: once the application configuration is loaded, only a failure to   *)
(* create the watcher or to register the domains file with it ends the     *)
(* process; a domains file that cannot be loaded, a storage that cannot be *)
(* constructed, a reconcile error, a failing issuer or a watcher error     *)
(* never does (passes over a configuration with an empty group set aside). *)
C13_OnlyWatcherFailuresTerminate ==
    (Terminated /\ NoEmptyGroup(pass.cfg)) => pc \in {"fatalBoot", "fatalWatch"}

(* C13, second case: with a storage constructed, the timer branch does    *)
(* not end the process after a startup load that failed.                   *)
C13_NoTimerPanic ==
    ~(pc = "panic" /\ pass.kind = "timer" /\ domains.nil /\ ~storageNil)

(* C13, as far as the code has it: a reconcile call that returns an error  *)
(* and a reload that fails leave main running.                             *)
C13_ErrorsAreNotFatal ==
    [][ ( \/ (pass'.errs # pass.errs /\ pass'.errs # << >>
                 /\ pass'.errs[Len(pass'.errs)])
          \/ (pc = "select" /\ events' < events /\ ~domainsFile.ok) )
        => ~Terminated' ]_vars

(* C14: the scheduler processes one event at a time. A pass starts only   *)
(* when no pass is running, a waiting event is taken only when no pass is  *)
(* running, and every reconcile call is the call of the one running pass   *)
(* for the group at the head of its list.                                  *)
C14_OneEventAtATime ==
    [][ /\ (pass' # pass /\ pass'.done = << >>) => queue = << >>
        /\ (events' < events) => (pc = "select" /\ queue = << >>)
        /\ (last'.seq # last.seq) =>
              /\ pc \in {"startupPass", "eventPass", "timerPass"}
              /\ queue # << >> /\ last'.group = Head(queue)
              /\ pass'.kind = pass.kind ]_vars

\* a write event is waiting while a timer pass is half done
C14_Witness ==
    /\ pc = "timerPass" /\ events > 0
    /\ Len(pass.done) = 1 /\ Len(queue) = 1

(* C15: availability across passes. When the local directory of a domain  *)
(* root holds a non-empty certificate file and a non-empty key file, it    *)
(* still does after a reconcile call for that root in which the local file *)
(* system and the self-signed generator did not fail, whatever the issuer, *)
(* the blob store, the registration lookup or the decoding did.            *)
C15_AvailabilityAcrossPasses ==
    [][ ( /\ ReconcileStep
          /\ HasFiles(localCerts, last'.group[1])
          /\ last'.did.result \notin {"errWrite", "errSelfSigned"} )
        => HasFiles(localCerts', last'.group[1]) ]_vars

\* on the Remote backend a call published the cached record, and the next
\* call for the root, its renewal failing, left the files in place
C15_Witness ==
    /\ variant = "Remote" /\ Reconciled
    /\ last.did.result = "errRenew"
    /\ HasFiles(localCerts, LastRoot)
    /\ localCerts[LastRoot].cert = s3Cert[LastRoot]

\* the artifact is missing or has zero length
MissingOrEmpty(b) == b.kind = "nofile" \/ IsEmpty(b)

(* C16: in both backends DownloadCert(domainRoot) returns an error and no  *)
(* bytes whenever the certificate or the key artifact is missing or has    *)
(* zero length, and returns bytes without error only when both exist and   *)
(* are non-empty.                                                          *)
C16_DownloadNotFound ==
    (last.op = "DownloadCert") =>
        /\ (MissingOrEmpty(CacheCert(LastRoot)) \/ MissingOrEmpty(CacheKey(LastRoot)))
              => ( /\ last.did.result = "err"
                   /\ IsEmpty(last.did.loaded.cert) /\ IsEmpty(last.did.loaded.key) )
        /\ (last.did.result = "ok")
              => ( /\ ~MissingOrEmpty(last.did.loaded.cert)
                   /\ ~MissingOrEmpty(last.did.loaded.key) )

\* the claim does hold of the Local backend
C16_LocalBackendOnly ==
    (variant = "Local" /\ last.op = "DownloadCert") =>
        /\ (MissingOrEmpty(CacheCert(LastRoot)) \/ MissingOrEmpty(CacheKey(LastRoot)))
              => ( /\ last.did.result = "err"
                   /\ IsEmpty(last.did.loaded.cert) /\ IsEmpty(last.did.loaded.key) )
        /\ (last.did.result = "ok")
              => ( /\ ~MissingOrEmpty(last.did.loaded.cert)
                   /\ ~MissingOrEmpty(last.did.loaded.key) )

(* C17: when the reload of the domains file fails on a change event, no   *)
(* group is reconciled for that event and the in-memory group list is     *)
(* left unchanged: the step changes neither main's list, nor the queue,   *)
(* nor the record of the last pass, nor the storage, and the pass the     *)
(* timer starts afterwards iterates the list main loaded at startup, as   *)
(* it would have without the event.                                        *)
C17_FailedReloadChangesNothing ==
    [][ /\ (pc = "select" /\ events' < events /\ ~domainsFile.ok)
              => ( /\ reloadErrs' = reloadErrs + 1
                   /\ UNCHANGED << storeVars, domains, queue, pass, pc >> )
        /\ (pc = "select" /\ pc' = "timerPass")
              => ( /\ domains' = domains
                   /\ pass'.kind = "timer"
                   /\ pass'.cfg = domains.groups
                   /\ queue' = domains.groups )
        /\ (pc \notin {"boot", "storage", "load"}) => domains' = domains
      ]_vars

\* a timer pass starts after an event whose reload failed
C17_Witness ==
    /\ pc = "timerPass"
    /\ reloadErrs = 1
    /\ ~domainsFile.ok
    /\ pass.kind = "timer"
    /\ pass.done = << >>
    /\ pass.cfg = domains.groups
    /\ queue = domains.groups

(* C18: every domain group that reaches UpdateTLS is non-empty: a domains  *)
(* configuration containing an empty group is rejected or skipped before  *)
(* reconciliation begins, so UpdateTLS is never called with a group that  *)
(* has no first element.                                                   *)
C18_GroupsNonEmpty ==
    (last.op = "UpdateTLS") => last.group # << >>

\* what the program does with an empty group: the call is made and main ends
C18_EmptyGroupPanics ==
    (last.op = "UpdateTLS" /\ last.group = << >>)
        => (pc = "panic" /\ last.did.result = "panic")

\* the issuer outcomes compared: it answers, it refuses
IssuerOutcomes == {{}, {"obtain"}}

\* the local directory of r and the bucket hold the same record for r
SameCachedRecord(r) ==
    /\ localCerts[r].cert = s3Cert[r]
    /\ localCerts[r].key = s3Key[r]

\* two outcomes of UpdateTLS for the root r agree on the decision to renew,
\* on success or error and on the files published
SameContract(l, s, r) ==
    /\ l.renewCalled = s.renewCalled
    /\ (l.result = "ok") = (s.result = "ok")
    /\ l.lc[r].cert = s.lc[r].cert
    /\ l.lc[r].key = s.lc[r].key

(* C19: UpdateTLS has the same contract on both backends: from the same    *)
(* cached record, with the same issuer outcome and the same behaviour of   *)
(* the local file system, LocalACMEStorage.UpdateTLS and                   *)
(* S3ACMEStorage.UpdateTLS make the same decision to renew, both succeed   *)
(* or both return an error, and both leave the same certificate and key    *)
(* on local disk.                                                          *)
C19_SameContract ==
    \A g \in Groups \ {<< >>}, F \in IssuerOutcomes, days \in IssuerValidityDays :
        (~storageNil /\ SameCachedRecord(g[1])) =>
            \A l \in {LocalUpdateTLS(g, F, days)}, s \in {S3UpdateTLS(g, F, days)} :
                SameContract(l, s, g[1])

\* the two do agree when nothing is cached and the issuer answers
C19_AgreeOnFirstIssue ==
    \A g \in Groups \ {<< >>}, days \in IssuerValidityDays :
        ( /\ ~storageNil
          /\ localCerts[g[1]].cert.kind = "nofile" /\ s3Cert[g[1]].kind = "nofile" ) =>
            \A l \in {LocalUpdateTLS(g, {}, days)}, s \in {S3UpdateTLS(g, {}, days)} :
                SameContract(l, s, g[1])

\* they part on the decision when a certificate far from expiry is cached
C19_SameDecision ==
    \A g \in Groups \ {<< >>}, days \in IssuerValidityDays :
        (~storageNil /\ SameCachedRecord(g[1])) =>
            \A l \in {LocalUpdateTLS(g, {}, days)}, s \in {S3UpdateTLS(g, {}, days)} :
                l.renewCalled = s.renewCalled

\* what the step's UpdateTLS call did agrees with the expiry policy applied to
\* the record it loaded: renewACMECertificate was called only if
\* certExpiresSoon says it is time (which it says of empty and undecodable
\* bytes too), and no issuer request was made for a certificate far from
\* expiry
RenewedByPolicy ==
    /\ last'.did.renewCalled
          => certExpiresSoon(last'.did.loaded.cert,
                             MaxRemainingDaysBeforeCertExpiry, now).soon
    /\ FarFromExpiry(last'.did.loaded.cert, now)
          => ( /\ ~last'.did.renewCalled
               /\ last'.did.obtained = << >> )

(* C20: in both backends an UpdateTLS call invokes renewACMECertificate,   *)
(* and through it the ACME issuer, only if the expiry policy evaluated on  *)
(* the record loaded in that call said it was time to renew (or the record *)
(* was empty or undecodable); a call that loaded a certificate with        *)
(* remaining validity above the window makes no issuer request.            *)
C20_RenewOnlyIfShouldRenew ==
    [][ ReconcileStep => RenewedByPolicy ]_vars

\* the claim does hold of the Remote backend
C20_RemoteBackendOnly ==
    [][ (variant = "Remote" /\ ReconcileStep)
            => ( /\ RenewedByPolicy
                 /\ last'.did.renewCalled => last'.did.expiryChecked ) ]_vars

\* the last call was a Remote UpdateTLS whose renewal obtained a certificate
\* and whose local writes were not made to fail
RemoteRenewed ==
    /\ variant = "Remote"
    /\ Reconciled
    /\ last.did.renewCalled
    /\ ~last.did.renewErr
    /\ last.did.result # "errWrite"

(* C21: on the Remote backend the local publish runs in every UpdateTLS    *)
(* call once a record is resolved, and before the upload: when the renewal *)
(* obtained a new certificate, the new certificate and key are in the      *)
(* local directory of the domain root when the call returns, also when     *)
(* SaveCert failed.                                                        *)
C21_PublishBeforeUpload ==
    RemoteRenewed =>
        /\ localCerts[LastRoot].cert = last.did.newCert
        /\ localCerts[LastRoot].key = last.did.newKey

\* the new pair is published when the upload succeeded
C21_PublishAfterUpload ==
    (RemoteRenewed /\ last.did.result # "errSave") =>
        /\ last.did.result = "ok"
        /\ localCerts[LastRoot].cert = last.did.newCert
        /\ localCerts[LastRoot].key = last.did.newKey

\* LocalACMEStorage.SaveCert, whatever it is given, returns an error and
\* leaves the stored objects as they are
LocalSaveCertRefuses ==
    \A r \in Roots, c \in ArgCerts, k \in ArgKeys, F \in SUBSET {"putCert", "putKey"} :
        \A sv \in {LocalSaveCert(r, c, k, F)} :
            sv.err /\ sv.s3Cert = s3Cert /\ sv.s3Key = s3Key

(* C22: SaveCert is called during an UpdateTLS call only on the Remote     *)
(* backend and only when the renewal of that call obtained a new           *)
(* certificate, and it is called with exactly the new certificate and key. *)
(* UpdateTLS of the Local backend never calls SaveCert, and                *)
(* LocalACMEStorage.SaveCert always returns an error and changes nothing.  *)
C22_SaveCertOnlyAfterRenewal ==
    /\ (Reconciled /\ last.did.saveCalled) =>
            /\ variant = "Remote"
            /\ last.did.renewCalled
            /\ ~last.did.renewErr
            /\ ~IsEmpty(last.did.newCert)
            /\ last.did.obtained # << >>
            /\ last.did.saveArgs = << LastRoot, last.did.newCert, last.did.newKey >>
    /\ (Reconciled /\ variant = "Local") =>
            /\ ~last.did.saveCalled
            /\ s3Cert = [r \in Roots |-> NoFile]
            /\ s3Key = [r \in Roots |-> NoFile]
    /\ LocalSaveCertRefuses

\* a Remote call renewed and uploaded the new pair
C22_Witness ==
    /\ variant = "Remote"
    /\ Reconciled
    /\ last.did.saveCalled
    /\ last.did.result = "ok"
    /\ last.did.saveArgs = << LastRoot, last.did.newCert, last.did.newKey >>
    /\ s3Cert[LastRoot] = last.did.newCert
    /\ s3Key[LastRoot] = last.did.newKey

\* a direct call of SaveCert on the Local backend ends in an error and
\* leaves the storage as it was
C22_LocalSaveCertFails ==
    [][ (variant = "Local" /\ last'.seq # last.seq /\ last'.op = "SaveCert")
            => ( /\ last'.did.result = "err"
                 /\ UNCHANGED << localCerts, s3Cert, s3Key, acct, saved >> ) ]_vars

\* this step is a call SaveCert(r, c, k) on the Remote backend
RemoteSaveStep == variant = "Remote" /\ last'.seq # last.seq /\ last'.op = "SaveCert"

(* C23: S3ACMEStorage.SaveCert makes two independent writes, certificate   *)
(* first and key second. A call that returns an error either changed no    *)
(* object (the certificate write failed) or left the new certificate in    *)
(* the certificate object and the key object as it was, stale or absent    *)
(* (the key write failed); nothing is retried or undone. A call that       *)
(* returns nil left both new objects. Objects of other roots never change. *)
C23_TwoIndependentWrites ==
    [][ RemoteSaveStep =>
          \E r \in Roots :
            /\ last'.group = <<r>>
            /\ \A q \in Roots \ {r} : s3Cert'[q] = s3Cert[q] /\ s3Key'[q] = s3Key[q]
            /\ IF last'.did.result = "ok"
               THEN /\ s3Cert'[r] = last'.did.saveArgs[2]
                    /\ s3Key'[r] = last'.did.saveArgs[3]
               ELSE /\ s3Key'[r] = s3Key[r]
                    /\ s3Cert'[r] \in {s3Cert[r], last'.did.saveArgs[2]}
      ]_vars

\* a call failed at the key write: the new certificate sits next to the key
\* stored before
C23_Witness ==
    /\ variant = "Remote"
    /\ last.op = "SaveCert" /\ last.group = <<"a">>
    /\ last.did.result = "err"
    /\ s3Cert["a"] = last.did.saveArgs[2]
    /\ s3Cert["a"].kind = "cert" /\ s3Cert["a"].id = 100
    /\ s3Key["a"] = KeyPem(0)
    /\ last.did.saveArgs[3] = KeyPem(100)

\* this step is an UpdateTLS call for the group of the call before it, which
\* published a self-signed certificate; the step's call succeeds and the
\* issuer, if asked, issues
AfterSelfSigned ==
    /\ ReconcileStep
    /\ last.op = "UpdateTLS" /\ last.group = last'.group
    /\ last.did.result = "ok" /\ last.did.selfSignedCalled
    /\ localCerts[last.group[1]].cert = last.did.selfSigned.cert
    /\ last'.did.result = "ok"
    /\ last'.did.renewCalled => ~last'.did.renewErr

\* the step's call renewed and published what the issuer gave
ReplacedByIssued ==
    /\ last'.did.renewCalled
    /\ ~last'.did.selfSignedCalled
    /\ localCerts'[last'.group[1]].cert = last'.did.newCert
    /\ localCerts'[last'.group[1]].key = last'.did.newKey

(* C24: a self-signed fallback is a stop-gap: in both backends, when an    *)
(* UpdateTLS call for a group published a self-signed certificate, the     *)
(* next call for that group in which the issuer is able to issue renews    *)
(* and publishes the issued certificate in place of the self-signed one,   *)
(* whatever the backend holds for the domain root.                         *)
C24_SelfSignedIsStopGap ==
    [][ AfterSelfSigned => ReplacedByIssued ]_vars

\* the claim does hold of the Local backend
C24_LocalBackendOnly ==
    [][ (variant = "Local" /\ AfterSelfSigned) => ReplacedByIssued ]_vars

\* a SaveUser of this backend has succeeded: the user file it writes and the
\* key file, its last write, are there
SavedIdentity ==
    /\ acct.pem # 0
    /\ IF variant = "Local" THEN acct.homeJson ELSE acct.json

\* with working storage LoadUser finds the saved identity, and a renewal for
\* any group uses its key and creates none
IdentityReused ==
    /\ \A lu \in {LoadUser(acct, {})} : ~lu.err /\ lu.key = acct.pem
    /\ \A g \in Groups \ {<< >>}, days \in IssuerValidityDays :
          \A rn \in {renewACMECertificate(g, acct, {}, days)} :
              ~rn.client.created /\ rn.client.key = acct.pem

(* C25: one account identity per contact email, created lazily and reused: *)
(* in both backends, after SaveUser has succeeded for the email, LoadUser  *)
(* finds that identity, so every later renewal, for any group, uses the    *)
(* saved account key and generates no new one.                             *)
C25_OneIdentityPerEmail ==
    SavedIdentity => IdentityReused

\* the claim holds when the process runs in loadmasterHomeDir, and of the
\* Remote backend
C25_WhenRunFromHome ==
    (SavedIdentity /\ cwdIsHome) => IdentityReused

\* the faults of the account and registration steps of a renewal: none, or one
AccountFaults ==
    {{}} \cup {{f} : f \in {"loadUser", "loadRegU", "saveUserJson", "saveUserPem",
                             "client", "loadReg", "register", "saveReg"}}

\* what a renewal started in this state does about the registration, under
\* every such fault: it registers only when LoadRegistration fails, a
\* successful register is saved, and with working storage a stored
\* registration is loaded and used. getRegisteredACMEClient does not take the
\* group, so this is so for every group.
RegisterOnlyWhenAbsent ==
    \A F \in AccountFaults :
        \A c \in {getRegisteredACMEClient(acct, F)} :
            /\ c.registered => LoadRegistration(acct, F, "loadReg").err
            /\ (c.registered /\ ~c.err) => (c.acct.reg = c.reg /\ c.reg # 0)
            /\ (acct.reg # 0 /\ F = {})
                  => (~c.registered /\ c.reg = acct.reg /\ c.acct.reg = acct.reg)

(* C26: the ACME registration is created once and reused: the issuer's     *)
(* register operation is called only when no registration can be loaded    *)
(* from storage, the registration is saved on the first successful         *)
(* register, and every later renewal, for any group, with working storage  *)
(* loads it and does not register again.                                   *)
C26_RegisterOnceAndReuse ==
    /\ RegisterOnlyWhenAbsent
    /\ (Reconciled /\ last.did.registered /\ last.did.usedReg # 0)
          => acct.reg = last.did.usedReg
    /\ (Reconciled /\ last.did.renewCalled /\ ~last.did.registered /\ last.did.usedReg # 0)
          => acct.reg = last.did.usedReg

\* a renewal for the second group used the registration an earlier renewal
\* saved, without registering
C26_Witness ==
    /\ Reconciled
    /\ last.group = <<"b", "a">>
    /\ last.did.renewCalled /\ ~last.did.renewErr
    /\ ~last.did.registered
    /\ last.did.usedReg # 0
    /\ acct.reg = last.did.usedReg

\* the faults of one renewal: none, or one of its steps fails
RenewFaults ==
    {{}} \cup {{f} : f \in {"loadUser", "newUser", "saveUserPem", "client", "loadReg",
                             "register", "saveReg", "obtain", "badIssued"}}

\* what renewACMECertificate returned: an error without bytes, or the bundle
\* issued for the group with its key
RenewResultOk(rn, g) ==
    /\ Len(rn.obtained) <= 1
    /\ rn.obtained # << >> => rn.obtained = << g >>
    /\ rn.client.err => (rn.err /\ rn.obtained = << >>)
    /\ rn.err => (IsEmpty(rn.cert) /\ IsEmpty(rn.key))
    /\ ~rn.err => ( /\ rn.obtained = << g >>
                     /\ rn.cert.kind = "cert" /\ rn.cert.by = "acme"
                     /\ rn.cert.subject = g[1]
                     /\ rn.key.kind = "key" /\ rn.key.id = rn.cert.id
                     /\ rn.domain = g[1] )

\* each failing step of a renewal ends it with an error
RenewFailuresReturned ==
    \A g \in Groups \ {<< >>}, F \in RenewFaults, days \in IssuerValidityDays :
        \A rn \in {renewACMECertificate(g, acct, F, days)} :
            /\ RenewResultOk(rn, g)
            /\ (F \cap {"client", "obtain", "badIssued"} # {}) => rn.err
            /\ ("newUser" \in F /\ LoadUser(acct, F).err) => rn.err
            /\ ( /\ F \cap {"register", "saveReg"} # {}
                 /\ LoadUser(acct, F).reg = 0
                 /\ LoadRegistration(acct, F, "loadReg").err ) => rn.err
            /\ F = {} => ~rn.err

(* C27: within one call renewACMECertificate requests issuance at most     *)
(* once, for the whole domain group in its configured order in one         *)
(* request, and never retries: a failure of the identity, the client, the  *)
(* registration, the issuance or the parsing of the issued certificate     *)
(* ends the call with an error and no certificate or key bytes; on success *)
(* the result is the issued bundle and its key, for the domain root that   *)
(* is the first element of the group.                                      *)
C27_OneRequestNoRetry ==
    /\ RenewFailuresReturned
    /\ (Reconciled /\ last.did.renewCalled) =>
          /\ Len(last.did.obtained) <= 1
          /\ last.did.obtained # << >> => last.did.obtained = << last.group >>
          /\ last.did.renewErr => (IsEmpty(last.did.newCert) /\ IsEmpty(last.did.newKey))
          /\ ~last.did.renewErr
                => ( /\ last.did.obtained = << last.group >>
                     /\ last.did.newCert.kind = "cert"
                     /\ last.did.newCert.subject = LastRoot
                     /\ last.did.newKey.kind = "key"
                     /\ last.did.newKey.id = last.did.newCert.id )

\* a renewal for the group of two domains succeeded with one request
C27_Witness ==
    /\ Reconciled
    /\ last.group = <<"b", "a">>
    /\ last.did.renewCalled /\ ~last.did.renewErr
    /\ last.did.obtained = << <<"b", "a">> >>
    /\ last.did.newCert.subject = "b"
    /\ last.did.newKey.id = last.did.newCert.id

\* the record the step's UpdateTLS call went to publish: the self-signed
\* pair, else the renewed pair, else the loaded pair
WorkingCert ==
    IF last'.did.selfSignedCalled THEN last'.did.selfSigned.cert
    ELSE IF last'.did.renewCalled THEN last'.did.newCert
    ELSE last'.did.loaded.cert
WorkingKey ==
    IF last'.did.selfSignedCalled THEN last'.did.selfSigned.key
    ELSE IF last'.did.renewCalled THEN last'.did.newKey
    ELSE last'.did.loaded.key

(* C28: in both backends an UpdateTLS call removes the local certificate   *)
(* directory of the domain root only once it holds a record whose          *)
(* certificate and key are both non-empty; on every path that returns      *)
(* before publishing (renewal error, upload error, self-signed generation  *)
(* error) the certificate and key files that were in the directory are     *)
(* left unchanged.                                                         *)
C28_RemoveOnlyWithRecord ==
    [][ ReconcileStep =>
          /\ last'.did.removed
                => ( /\ ~IsEmpty(WorkingCert) /\ WorkingCert.kind # "nofile"
                     /\ ~IsEmpty(WorkingKey) /\ WorkingKey.kind # "nofile" )
          /\ last'.did.result \in {"errRenew", "errSave", "errSelfSigned"}
                => ( /\ ~last'.did.removed
                     /\ localCerts'[last'.group[1]].cert = localCerts[last'.group[1]].cert
                     /\ localCerts'[last'.group[1]].key = localCerts[last'.group[1]].key )
          /\ ~last'.did.removed
                => \A r \in Roots : /\ localCerts'[r].cert = localCerts[r].cert
                                     /\ localCerts'[r].key = localCerts[r].key
      ]_vars

\* a call returned at the failed upload and the files published before are
\* still in the directory
C28_Witness ==
    /\ Reconciled
    /\ last.did.result = "errSave"
    /\ ~last.did.removed
    /\ HasFiles(localCerts, LastRoot)
    /\ localCerts[LastRoot].cert = last.did.loaded.cert
    /\ localCerts[LastRoot].cert # last.did.newCert

(* C29: the registration used in a renewal belongs to the account key     *)
(* used in that renewal: a registration loaded from storage is never       *)
(* combined with another account key than the one it was registered with,  *)
(* also when the identity could not be loaded, or its save failed, and a   *)
(* new key was generated while an earlier registration is in storage.      *)
C29_RegistrationMatchesKey ==
    (Reconciled /\ last.did.renewCalled /\ last.did.usedReg # 0)
        => last.did.usedReg = last.did.usedKey

\* a registration made in the call belongs to the key of the call
C29_FreshRegistrationMatches ==
    (Reconciled /\ last.did.renewCalled /\ last.did.registered /\ last.did.usedReg # 0)
        => last.did.usedReg = last.did.usedKey

\* the claim restricted to runs in which LoadUser reads where SaveUser writes
C29_MatchesWhenRunFromHome ==
    (cwdIsHome /\ Reconciled /\ last.did.renewCalled /\ last.did.usedReg # 0)
        => last.did.usedReg = last.did.usedKey

(* C30: an UpdateTLS call for one domain group changes certificate        *)
(* material only under the domain root of that group: the local            *)
(* directories and the bucket objects of every other domain root are       *)
(* unchanged by the call, in both backends, whether it succeeds or         *)
(* returns an error.                                                       *)
C30_OnlyOwnRoot ==
    [][ ReconcileStep =>
          \A q \in Roots \ {last'.group[1]} :
              /\ localCerts'[q] = localCerts[q]
              /\ s3Cert'[q] = s3Cert[q]
              /\ s3Key'[q] = s3Key[q]
      ]_vars

\* a Remote call renewed for root b while root a had its own pair in the
\* bucket and on disk
C30_Witness ==
    /\ variant = "Remote"
    /\ Reconciled
    /\ last.group = <<"b", "a">>
    /\ last.did.result = "ok"
    /\ s3Cert["b"] = last.did.newCert
    /\ localCerts["b"].cert = last.did.newCert
    /\ HasFiles(localCerts, "a")
    /\ s3Cert["a"].kind = "cert"
    /\ localCerts["a"].cert # localCerts["b"].cert

====
